---- MODULE Spec2Model ----
(***************************************************************************)
(* The fst table codec: the table writer (fstStore), the schema reader     *)
(* (fstMeta), the table reader (fstRead) and the legacy readers            *)
(* (fstMeta_v1, fstRead_v1), over one file path.                           *)
(*                                                                         *)
(* A file is modelled by its regions and the offsets they sit at: the      *)
(* 24-byte table header, the rest of the table meta data, the column-name  *)
(* block, the column-position index and the column payloads.  The per-type *)
(* column codecs and the block streamer are external to the modelled       *)
(* sources: a payload records which encoder wrote it and what it holds,    *)
(* and a decoder returns the rows asked for when it is the matching one.   *)
(***************************************************************************)
EXTENDS Integers, Sequences, FiniteSets, TLC

VARIABLES
  file,   \* the contents of the file at the path the operations use
  wr,     \* fstStore's locals while a write is under way
  res,    \* what the last completed operation did and returned
  wrote   \* the write that produced the file, when fstStore completed one

vars == <<file, wr, res, wrote>>

----------------------------------------------------------------------------
(* Bounds of the model *)

MaxCols == 2
MaxRows == 2
MaxKeys == 2
MaxSel == 2

(* Program constants *)

FST_VERSION == 1
TABLE_META_SIZE == 24
\* 0xa91c12f8b245a71d as four 16-bit words, most significant first
FST_FILE_ID == <<43292, 4856, 45637, 42781>>
\* any other content of the 8 bytes at offset 16
OTHER_FILE_ID == <<0, 0, 0, 0>>

CHAR_HEADER_SIZE == 8
CHAR_INDEX_SIZE == 16

----------------------------------------------------------------------------
(* Inputs *)

ColNames == {"a", "b"}
\* "z" never names a column
AnyNames == ColNames \cup {"z"}

\* R vector types of a column: FACTOR is an INTSXP carrying a factor class,
\* VECSXP stands for every type the writer has no codec for
RTypes == <<"STRSXP", "FACTOR", "INTSXP", "REALSXP", "LGLSXP", "VECSXP">>

\* compression levels: the ends and the middle of the range, and two that
\* fstStore refuses
Levels == {0, 50, 100}
BadLevels == {-1, 101}

\* what a freshly allocated, never written buffer may hold
UninitValues == {0, 43690}

SeqsUpTo(S, n) == UNION {[1..k -> S] : k \in 0..n}

Min(a, b) == IF a < b THEN a ELSE b

\* the cell of row r of the c-th column (0-based c, 1-based r)
CellValue(c, r) == 10 * (c + 1) + r

\* column types: with all six shifts every type occurs at every position
TypeVector(C, s) == [i \in 1..C |-> RTypes[((s + i - 1) % 6) + 1]]

\* the "sorted" attributes a table may carry: names without repetition,
\* <<>> when the table has none
KeyLists ==
  {ks \in SeqsUpTo(AnyNames, MaxKeys) :
     \A i, j \in 1..Len(ks) : i # j => ks[i] # ks[j]}

\* tables: names, types, the length of the columns and the key names
TablesOf(cols, shifts, rows) ==
  UNION {
    {[names |-> nm, types |-> TypeVector(C, s), nrOfRows |-> n, keys |-> ks] :
        nm \in [1..C -> ColNames], s \in shifts, n \in rows,
        ks \in KeyLists} :
    C \in cols}

\* the tables handed to fstStore, among them tables it refuses
Tables == TablesOf(0..MaxCols, 0..5, 0..MaxRows)

\* tables with at least one column and one row; one type per position
ReadTables == TablesOf(1..MaxCols, {2}, 1..MaxRows)

ColData(T, c) == [r \in 1..T.nrOfRows |-> CellValue(c, r)]

----------------------------------------------------------------------------
(* The column codecs, as far as the table writer and reader see them *)

ElementSize(code) == IF code = 9 THEN 8 ELSE 4

\* bytes written by the text codec for n strings of one character each
CharVecSize(n) == CHAR_HEADER_SIZE + CHAR_INDEX_SIZE + 5 * n

\* bytes written by the encoder of a type for n rows
EncodedSize(code, n, level) ==
  CASE code = 6 -> CharVecSize(n)
    [] code = 7 -> CharVecSize(n) + 8 + n * 4
    [] OTHER -> 8 + (IF level = 0 THEN 0 ELSE 16) + n * ElementSize(code)

\* what a decoder yields for rows it cannot find
Garbage == <<-1>>

\* the decoder of type `code` reading `length` rows from 0-based `startRow`
\* of the payload at offset `pos`
Decode(payload, code, pos, startRow, length) ==
  IF /\ pos \in DOMAIN payload
     /\ payload[pos].codec = code
     /\ startRow >= 0
     /\ length >= 0
     /\ startRow + length <= Len(payload[pos].data)
  THEN SubSeq(payload[pos].data, startRow + 1, startRow + length)
  ELSE Garbage

----------------------------------------------------------------------------
(* Files *)

NoV0 ==
  [nrOfCols |-> 0, keyLength |-> 0, keyColumns |-> <<>>, colTypes |-> <<>>,
   allBlockPos |-> <<0>>, colNames |-> <<>>, namesAt |-> 0]

NoFile ==
  [exists |-> FALSE, complete |-> FALSE,
   nrOfCols |-> 0, keyLength |-> 0, version |-> 0,
   nrOfChunksPerIndexRow |-> 0, fileId |-> OTHER_FILE_ID,
   chunkPos |-> <<>>, chunkRows |-> <<>>, nrOfChunks |-> 0,
   keyColPos |-> <<>>, colTypes |-> <<>>,
   namesAt |-> 0, colNames |-> <<>>,
   indexAt |-> 0, index |-> <<>>,
   payload |-> <<>>, v0 |-> NoV0, damage |-> "none"]

NoResult == [op |-> "none"]
Idle == [pc |-> "idle"]

\* no operation is running and the last one has returned to its caller
Ready == wr.pc = "idle" /\ res = NoResult

----------------------------------------------------------------------------
(* fstStore *)

\* 0-based index of the first column named item, -1 when none is
FindKey(colNameList, item) ==
  IF \E j \in 1..Len(colNameList) : colNameList[j] = item
  THEN (CHOOSE j \in 1..Len(colNameList) :
          /\ colNameList[j] = item
          /\ \A k \in 1..(j - 1) : colNameList[k] # item) - 1
  ELSE -1

\* the type code fstStore's switch gives a column, 0 for its default branch
TypeCode(rtype) ==
  CASE rtype = "STRSXP" -> 6
    [] rtype = "FACTOR" -> 7
    [] rtype = "INTSXP" -> 8
    [] rtype = "REALSXP" -> 9
    [] rtype = "LGLSXP" -> 10
    [] OTHER -> 0

MetaDataSize(keyLength, nrOfCols) == 156 + 4 * keyLength + 2 * nrOfCols

\* metaDataBlock right before the first write of the header: what fstStore
\* has assigned, the rest as the allocation left it
MetaDataBlock(T, fill) ==
  LET nrOfCols == Len(T.names)
      keyLength == Len(T.keys)
  IN [nrOfCols |-> nrOfCols,
      keyLength |-> keyLength,
      version |-> FST_VERSION,
      nrOfChunksPerIndexRow |-> 1,
      fileId |-> FST_FILE_ID,
      chunkPos |-> [i \in 1..8 |-> fill],
      chunkRows |-> [i \in 1..8 |-> IF i = 1 THEN T.nrOfRows ELSE fill],
      nrOfChunks |-> 1,
      keyColPos |-> [i \in 1..keyLength |-> FindKey(T.names, T.keys[i])],
      colTypes |-> [i \in 1..nrOfCols |-> fill]]

\* the file after myfile.write(metaDataBlock) at offset 0
WithHeader(f, m) ==
  [f EXCEPT !.exists = TRUE, !.complete = TRUE,
            !.nrOfCols = m.nrOfCols, !.keyLength = m.keyLength,
            !.version = m.version,
            !.nrOfChunksPerIndexRow = m.nrOfChunksPerIndexRow,
            !.fileId = m.fileId,
            !.chunkPos = m.chunkPos, !.chunkRows = m.chunkRows,
            !.nrOfChunks = m.nrOfChunks,
            !.keyColPos = m.keyColPos, !.colTypes = m.colTypes]

StoreError(msg, opened) ==
  [op |-> "store", status |-> "error", error |-> msg,
   opened |-> opened, closed |-> opened]

\* fstStore up to the first column: argument checks, the header, the column
\* names and the reserved column-position index
StoreBegin(T, compress, canOpen, fillMeta, fillPos) ==
  /\ Ready
  /\ ~file.exists
  /\ LET nrOfCols == Len(T.names)
         keyLength == Len(T.keys)
         metaDataSize == MetaDataSize(keyLength, nrOfCols)
         meta == MetaDataBlock(T, fillMeta)
         namesSize == CharVecSize(nrOfCols)
         positionData == [i \in 1..nrOfCols |-> fillPos]
     IN
     IF compress < 0 \/ compress > 100
     THEN /\ res' = StoreError("compression", FALSE)
          /\ UNCHANGED <<file, wr, wrote>>
     ELSE IF nrOfCols = 0
     THEN /\ res' = StoreError("no columns", FALSE)
          /\ UNCHANGED <<file, wr, wrote>>
     ELSE IF T.nrOfRows = 0
     THEN /\ res' = StoreError("no data", FALSE)
          /\ UNCHANGED <<file, wr, wrote>>
     ELSE IF ~canOpen
     THEN /\ res' = StoreError("create", TRUE)
          /\ UNCHANGED <<file, wr, wrote>>
     ELSE /\ file' =
               [WithHeader(NoFile, meta) EXCEPT
                  !.namesAt = metaDataSize,
                  !.colNames = T.names,
                  !.indexAt = metaDataSize + namesSize,
                  !.index = positionData]
          /\ wr' = [pc |-> "columns", table |-> T, compress |-> compress,
                    meta |-> meta, metaDataSize |-> metaDataSize,
                    positionData |-> positionData, colNr |-> 0,
                    pos |-> metaDataSize + namesSize + 8 * nrOfCols,
                    log |-> <<[ev |-> "header", pos |-> 0],
                              [ev |-> "names", pos |-> metaDataSize],
                              [ev |-> "index",
                               pos |-> metaDataSize + namesSize]>>]
          /\ res' = NoResult
          /\ UNCHANGED wrote

\* the column loop taking the position of a column after it wrote it
StoreColumnLate ==
  /\ wr.pc = "columns"
  /\ wr.colNr < Len(wr.table.names)
  /\ LET T == wr.table
         c == wr.colNr
         code == TypeCode(T.types[c + 1])
         positionData ==
           [wr.positionData EXCEPT
              ![c + 1] = wr.pos + EncodedSize(code, T.nrOfRows, wr.compress)]
     IN
     IF code = 0
     THEN /\ res' = StoreError("unknown type", TRUE)
          /\ wr' = Idle
          /\ UNCHANGED <<file, wrote>>
     ELSE /\ file' = [file EXCEPT !.payload =
                        [p \in DOMAIN file.payload \cup {wr.pos} |->
                           IF p = wr.pos
                           THEN [codec |-> code, data |-> ColData(T, c),
                                 level |-> wr.compress]
                           ELSE file.payload[p]]]
          /\ wr' = [wr EXCEPT
                      !.positionData = positionData,
                      !.meta.colTypes[c + 1] = code,
                      !.colNr = c + 1,
                      !.pos = wr.pos + EncodedSize(code, T.nrOfRows, wr.compress),
                      !.log = Append(wr.log,
                                     [ev |-> "encode", codec |-> code,
                                      colNr |-> c, pos |-> wr.pos,
                                      length |-> T.nrOfRows,
                                      level |-> wr.compress])]
          /\ UNCHANGED <<res, wrote>>

\* one round of the column loop
StoreColumn ==
  /\ wr.pc = "columns"
  /\ wr.colNr < Len(wr.table.names)
  /\ LET T == wr.table
         c == wr.colNr
         code == TypeCode(T.types[c + 1])
         positionData == [wr.positionData EXCEPT ![c + 1] = wr.pos]
     IN
     IF code = 0
     THEN /\ res' = StoreError("unknown type", TRUE)
          /\ wr' = Idle
          /\ UNCHANGED <<file, wrote>>
     ELSE /\ file' = [file EXCEPT !.payload =
                        [p \in DOMAIN file.payload \cup {wr.pos} |->
                           IF p = wr.pos
                           THEN [codec |-> code, data |-> ColData(T, c),
                                 level |-> wr.compress]
                           ELSE file.payload[p]]]
          /\ wr' = [wr EXCEPT
                      !.positionData = positionData,
                      !.meta.colTypes[c + 1] = code,
                      !.colNr = c + 1,
                      !.pos = wr.pos + EncodedSize(code, T.nrOfRows, wr.compress),
                      !.log = Append(wr.log,
                                     [ev |-> "encode", codec |-> code,
                                      colNr |-> c, pos |-> wr.pos,
                                      length |-> T.nrOfRows,
                                      level |-> wr.compress])]
          /\ UNCHANGED <<res, wrote>>

\* after the last column: the header and the column-position index are
\* written again and the file is closed
StoreFinish ==
  /\ wr.pc = "columns"
  /\ wr.colNr = Len(wr.table.names)
  /\ LET nrOfCols == Len(wr.table.names)
         chunkPos == wr.positionData[1] - 8 * nrOfCols
         meta == [wr.meta EXCEPT !.chunkPos[1] = chunkPos]
     IN
     /\ file' = [WithHeader(file, meta) EXCEPT
                   !.index = IF chunkPos = file.indexAt
                             THEN wr.positionData ELSE file.index]
     /\ res' = [op |-> "store", status |-> "ok", error |-> "",
                opened |-> TRUE, closed |-> TRUE,
                keyNames |-> wr.table.keys, keyLength |-> Len(wr.table.keys),
                metaDataSize |-> wr.metaDataSize,
                positionData |-> wr.positionData,
                table |-> wr.table, compress |-> wr.compress,
                log |-> wr.log \o <<[ev |-> "header", pos |-> 0],
                                    [ev |-> "index", pos |-> chunkPos]>>]
     /\ wrote' = [table |-> wr.table, compress |-> wr.compress,
                  log |-> wr.log]
     /\ wr' = Idle

----------------------------------------------------------------------------

(* Events of an operation, in the order the code performs them *)

Ev(name) == [ev |-> name]
DecodeEv(code, colNr, pos, startRow, length) ==
  [ev |-> "decode", codec |-> code, colNr |-> colNr, pos |-> pos,
   startRow |-> startRow, length |-> length]

Events(log, name) == {i \in 1..Len(log) : log[i].ev = name}
Has(log, name) == Events(log, name) # {}

\* the decode events of a log, in order
RECURSIVE Decodes(_)
Decodes(log) ==
  IF log = <<>> THEN <<>>
  ELSE IF Head(log).ev = "decode" THEN <<Head(log)>> \o Decodes(Tail(log))
  ELSE Decodes(Tail(log))

\* an operation that raised an error returns nothing
Failed(op, reader, args, msg, log) ==
  [op |-> op, reader |-> reader, args |-> args, status |-> "error",
   error |-> msg, log |-> log]

----------------------------------------------------------------------------
(* ReadHeader *)

\* ReadHeader without the comparison of the version
ReadHeaderNoGate(f) ==
  IF ~f.complete
  THEN [status |-> "error", error |-> "damaged header", version |-> 0,
        log |-> <<Ev("header"), Ev("close")>>]
  ELSE IF f.fileId # FST_FILE_ID
  THEN [status |-> "ok", error |-> "", version |-> 0,
        log |-> <<Ev("header")>>]
  ELSE [status |-> "ok", error |-> "", version |-> f.version,
        log |-> <<Ev("header")>>]

\* ReadHeader leaving the file open when it refuses the version
ReadHeaderLeak(f) ==
  IF ~f.complete
  THEN [status |-> "error", error |-> "damaged header", version |-> 0,
        log |-> <<Ev("header"), Ev("close")>>]
  ELSE IF f.fileId # FST_FILE_ID
  THEN [status |-> "ok", error |-> "", version |-> 0,
        log |-> <<Ev("header")>>]
  ELSE IF f.version > FST_VERSION
  THEN [status |-> "error", error |-> "newer version", version |-> f.version,
        log |-> <<Ev("header")>>]
  ELSE [status |-> "ok", error |-> "", version |-> f.version,
        log |-> <<Ev("header")>>]

\* ReadHeader: status "error" when it raised (the file is then closed),
\* else the version it returns
ReadHeader(f) ==
  IF ~f.complete
  THEN [status |-> "error", error |-> "damaged header", version |-> 0,
        log |-> <<Ev("header"), Ev("close")>>]
  ELSE IF f.fileId # FST_FILE_ID
  THEN [status |-> "ok", error |-> "", version |-> 0,
        log |-> <<Ev("header")>>]
  ELSE IF f.version > FST_VERSION
  THEN [status |-> "error", error |-> "newer version", version |-> f.version,
        log |-> <<Ev("header"), Ev("close")>>]
  ELSE [status |-> "ok", error |-> "", version |-> f.version,
        log |-> <<Ev("header")>>]

----------------------------------------------------------------------------
(* Steps shared by fstRead and fstRead_v1 *)

\* 0-based index of the first stored column named str1, -1 when none is
FirstMatch(colNames, str1) ==
  IF \E j \in 1..Len(colNames) : colNames[j] = str1
  THEN (CHOOSE j \in 1..Len(colNames) :
          /\ colNames[j] = str1
          /\ \A k \in 1..(j - 1) : colNames[k] # str1) - 1
  ELSE -1

\* the column numbers of a selection; sel.isNull is Rf_isNull(columnSelection)
ColIndex(colNames, nrOfCols, sel) ==
  IF sel.isNull
  THEN [i \in 1..nrOfCols |-> i - 1]
  ELSE [i \in 1..Len(sel.names) |-> FirstMatch(colNames, sel.names[i])]

NrOfSelect(nrOfCols, sel) == IF sel.isNull THEN nrOfCols ELSE Len(sel.names)

\* firstRow of a read
FirstRow(from) == from - 1

\* the row count with lastRow taken as the row behind the last one
RowLengthExclusive(nrOfRows, firstRow, to) ==
  IF to = <<>> THEN nrOfRows - firstRow
  ELSE Min(to[1] - firstRow - 1, nrOfRows - firstRow)

\* the row count of a read that has passed the range checks; to is <<>> for
\* a null endRow, else <<lastRow>>
RowLength(nrOfRows, firstRow, to) ==
  IF to = <<>> THEN nrOfRows - firstRow
  ELSE Min(to[1] - firstRow, nrOfRows - firstRow)

\* the range checks letting firstRow = nrOfRows through
RowErrorOffByOne(nrOfRows, firstRow, to) ==
  IF firstRow > nrOfRows \/ firstRow < 0
  THEN (IF firstRow < 0 THEN "fromRow not positive" ELSE "row out of range")
  ELSE IF to # <<>> /\ to[1] <= firstRow
  THEN "lastRow too small"
  ELSE ""

\* the range checks refusing lastRow = fromRow as well
RowErrorStrict(nrOfRows, firstRow, to) ==
  IF firstRow >= nrOfRows \/ firstRow < 0
  THEN (IF firstRow < 0 THEN "fromRow not positive" ELSE "row out of range")
  ELSE IF to # <<>> /\ to[1] <= firstRow + 1
  THEN "lastRow too small"
  ELSE ""

\* the error of the row range checks, "" when they pass
RowError(nrOfRows, firstRow, to) ==
  IF firstRow >= nrOfRows \/ firstRow < 0
  THEN (IF firstRow < 0 THEN "fromRow not positive" ELSE "row out of range")
  ELSE IF to # <<>> /\ to[1] <= firstRow
  THEN "lastRow too small"
  ELSE ""

\* the count with a key compared to the place in the selection instead of
\* the column selected there
FoundByPlace(keyColPos, keyLength, colIndex) ==
  Cardinality({i \in 1..keyLength :
                 \E s \in 1..Len(colIndex) : keyColPos[i] = s - 1})

\* number of keys whose column is among the selected ones
Found(keyColPos, keyLength, colIndex) ==
  Cardinality({i \in 1..keyLength :
                 \E s \in 1..Len(colIndex) : keyColPos[i] = colIndex[s]})

\* the name of stored column colNr; a column number outside the vector reads
\* past it
NameAt(colNames, colNr) ==
  IF colNr >= 0 /\ colNr < Len(colNames) THEN colNames[colNr + 1] ELSE "?"

\* the key names a read returns: those of the first `found` stored keys
KeyNames(colNames, keyColPos, found) ==
  [i \in 1..found |-> NameAt(colNames, keyColPos[i])]

----------------------------------------------------------------------------
(* Reading regions of a file *)

\* the column names found by the text decoder at `offset`
ReadNames(namesAt, colNames, nrOfCols, offset) ==
  IF offset = namesAt /\ Len(colNames) = nrOfCols
  THEN colNames
  ELSE [i \in 1..nrOfCols |-> "?"]

\* the column positions found right behind the column names read at `offset`
ReadIndex(f, nrOfCols, offset) ==
  IF /\ offset = f.namesAt
     /\ offset + CharVecSize(nrOfCols) = f.indexAt
     /\ Len(f.index) = nrOfCols
  THEN f.index
  ELSE [i \in 1..nrOfCols |-> 0]

\* what reading heap memory that is no longer (or never was) the reader's
\* can give: the value last stored there, or something else
HeapOutcomes ==
  {[kind |-> "intact", v |-> 0], [kind |-> "crash", v |-> 0]}
    \cup {[kind |-> "junk", v |-> j] : j \in -1..(MaxCols - 1)}

----------------------------------------------------------------------------
(* fstRead *)

\* the switch with the factor and the integer case exchanged
DecoderSwapped(code) ==
  IF code = 7 THEN 8 ELSE IF code = 8 THEN 7
  ELSE IF code \in {6, 9, 10} THEN code ELSE 0

\* the decoder fstRead's switch picks for a stored type code, 0 for its
\* default branch
Decoder(code) == IF code \in {6, 7, 8, 9, 10} THEN code ELSE 0

\* the decoder fstRead_v1's switch picks, 0 for its default branch
Decoder_v1(code) == IF code \in {1, 2, 3, 4, 5} THEN code ELSE 0

\* the offset taken without the 24 bytes of the table header
NamesOffsetNoHeader(keyLength, nrOfCols) == 132 + 4 * keyLength + 2 * nrOfCols

\* the offset fstRead and fstMeta read the column names at
NamesOffset(keyLength, nrOfCols) ==
  (132 + 4 * keyLength + 2 * nrOfCols) + TABLE_META_SIZE

\* the column loop of fstRead, from selection entry colSel on; acc holds the
\* log, the columns and the names so far
RECURSIVE ReadColumns(_, _, _, _, _, _, _, _, _)
ReadColumns(f, colNames, blockPos, colIndex, nrOfCols, firstRow, length, colSel, acc) ==
  IF colSel > Len(colIndex) THEN acc
  ELSE
    LET colNr == colIndex[colSel] IN
    IF colNr < 0 \/ colNr >= nrOfCols
    THEN [acc EXCEPT !.error = "column out of range",
                     !.log = acc.log \o <<Ev("free"), Ev("close")>>]
    ELSE
      LET code == Decoder(f.colTypes[colNr + 1])
          pos == blockPos[colNr + 1]
      IN
      IF code = 0
      THEN [acc EXCEPT !.error = "unknown type",
                       !.log = acc.log \o <<Ev("free"), Ev("close")>>]
      ELSE ReadColumns(f, colNames, blockPos, colIndex, nrOfCols, firstRow,
                       length, colSel + 1,
             [acc EXCEPT
                !.log = Append(acc.log,
                               DecodeEv(code, colNr, pos, firstRow, length)),
                !.resTable = Append(acc.resTable,
                               Decode(f.payload, code, pos, firstRow, length)),
                !.selectedNames = Append(acc.selectedNames,
                                         colNames[colNr + 1])])

\* the key columns copied into the result after dataMeta was deleted
KeyColVec(keyColPos, keyLength, heap) ==
  [i \in 1..(keyLength + 1) |->
     IF i > keyLength THEN 0
     ELSE IF heap.kind = "junk" THEN heap.v
     ELSE keyColPos[i]]

\* the check with the bound one too high
ChunksRefusedLate(nrOfChunks) == nrOfChunks > 2

\* the check of nrOfChunks
ChunksRefused(nrOfChunks) == nrOfChunks > 1

\* fstRead on a file ReadHeader accepted as current format
ReadCurrent(f, sel, from, to, heap, args, log0) ==
  LET nrOfCols == f.nrOfCols
      keyLength == f.keyLength
      offset == NamesOffset(keyLength, nrOfCols)
      log1 == Append(log0, Ev("meta"))
  IN
  IF ChunksRefused(f.nrOfChunks)
  THEN Failed("read", "current", args, "multiple chunks",
              log1 \o <<Ev("close"), Ev("free")>>)
  ELSE
    LET colNames == ReadNames(f.namesAt, f.colNames, nrOfCols, offset)
        blockPos == ReadIndex(f, nrOfCols, offset)
        log2 == log1 \o <<Ev("names"), Ev("index")>>
        colIndex == ColIndex(colNames, nrOfCols, sel)
        nrOfSelect == NrOfSelect(nrOfCols, sel)
        firstRow == FirstRow(from)
        nrOfRows == f.chunkRows[1]
        rowError == RowError(nrOfRows, firstRow, to)
        length == RowLength(nrOfRows, firstRow, to)
    IN
    IF \E s \in 1..nrOfSelect : colIndex[s] = -1
    THEN Failed("read", "current", args, "column not found",
                log2 \o <<Ev("free"), Ev("close")>>)
    ELSE IF rowError # ""
    THEN Failed("read", "current", args, rowError,
                log2 \o <<Ev("free"), Ev("close")>>)
    ELSE
      LET cols == ReadColumns(f, colNames, blockPos, colIndex, nrOfCols,
                              firstRow, length, 1,
                              [log |-> log2, resTable |-> <<>>,
                               selectedNames |-> <<>>, error |-> ""])
          found == Found(f.keyColPos, keyLength, colIndex)
      IN
      IF cols.error # ""
      THEN Failed("read", "current", args, cols.error, cols.log)
      ELSE IF found > 0
      THEN [op |-> "read", reader |-> "current", args |-> args,
            status |-> "ok", error |-> "",
            log |-> cols.log \o <<Ev("close"), Ev("key scan"),
                                Ev("key names"), Ev("free")>>,
            keyNamesNull |-> FALSE,
            keyNames |-> KeyNames(colNames, f.keyColPos, found),
            found |-> found, keyColVec |-> <<>>,
            resTable |-> cols.resTable,
            selectedNames |-> cols.selectedNames, warning |-> FALSE]
      ELSE [op |-> "read", reader |-> "current", args |-> args,
            status |-> "ok", error |-> "",
            log |-> cols.log \o <<Ev("close"), Ev("key scan"), Ev("free")>>
                      \o (IF keyLength > 0 THEN <<Ev("key copy")>>
                          ELSE <<>>),
            keyNamesNull |-> TRUE, keyNames |-> <<>>,
            found |-> found,
            keyColVec |-> KeyColVec(f.keyColPos, keyLength, heap),
            resTable |-> cols.resTable,
            selectedNames |-> cols.selectedNames, warning |-> FALSE]

----------------------------------------------------------------------------
(* fstRead_v1 *)

\* the offset the legacy readers read the column names at
NamesOffset_v1(keyLength, nrOfCols) ==
  (nrOfCols + 1) * 8 + (nrOfCols + keyLength + 2) * 2

\* the 16-bit words a current-format file starts with
HeaderWords(f) ==
  <<f.nrOfCols, 0, f.keyLength, 0, f.version, 0, f.nrOfChunksPerIndexRow, 0,
    FST_FILE_ID[4], FST_FILE_ID[3], FST_FILE_ID[2], FST_FILE_ID[1]>>
  \o [i \in 1..32 |->
        IF i % 4 = 1 THEN f.chunkPos[((i - 1) \div 4) + 1] % 65536
        ELSE IF i % 4 = 2 THEN f.chunkPos[((i - 1) \div 4) + 1] \div 65536
        ELSE 0]

\* the 8 bytes from word k on as a number; beyond 2^30 only the order of the
\* top words is kept
WordsValue(w, k) ==
  IF w[k + 3] = 0 /\ w[k + 2] = 0 /\ w[k + 1] < 16384
  THEN w[k] + 65536 * w[k + 1]
  ELSE 1073741824 + w[k + 3]

\* what the legacy readers find in a file: the legacy header of a legacy
\* file, and the same bytes read as one for a file in the current format
LegacyView(f) ==
  IF f.fileId # FST_FILE_ID THEN f.v0
  ELSE
    LET w == HeaderWords(f)
        C == f.nrOfCols
    IN [nrOfCols |-> C, keyLength |-> 0, keyColumns |-> <<>>,
        colTypes |-> [c \in 1..C |-> w[2 + c]],
        allBlockPos |-> [b \in 1..(C + 1) |->
                          IF b = 1
                          THEN (w[3 + C] + 65536 * (w[4 + C] % 16384))
                          ELSE WordsValue(w, 3 + C + 4 * (b - 1))],
        colNames |-> <<>>, namesAt |-> 0]

\* the error of the legacy header checks, "" when they pass
HeaderError_v1(v) ==
  IF v.nrOfCols < 0 \/ v.keyLength < 0
  THEN "unrecognised file type"
  ELSE IF \E k \in 1..v.keyLength :
            v.keyColumns[k] < 0 \/ v.keyColumns[k] >= v.nrOfCols
  THEN "header: key column"
  ELSE IF \E c \in 1..v.nrOfCols : v.colTypes[c] < 0 \/ v.colTypes[c] > 5
  THEN "header: column type"
  ELSE IF \E c \in 2..v.nrOfCols : v.allBlockPos[c + 1] < v.allBlockPos[c]
  THEN "header: blockPos"
  ELSE ""

\* what the legacy header checks have freed and closed when they raise
HeaderErrorLog_v1 == <<Ev("close"), Ev("free")>>

\* colIndex as fstRead_v1 reads it back: the array holds nrOfCols entries,
\* entries stored beyond them lie outside it
ColIndex_v1(colNames, nrOfCols, sel, heap) ==
  LET stored == ColIndex(colNames, nrOfCols, sel) IN
  [i \in 1..Len(stored) |->
     IF i > nrOfCols /\ heap.kind = "junk" THEN heap.v ELSE stored[i]]

\* whether the selection loop of fstRead_v1 stores outside colIndex: it stops
\* at the first name that matches no column
Overflows_v1(colNames, nrOfCols, sel) ==
  /\ ~sel.isNull
  /\ \E i \in 1..Len(sel.names) :
       /\ i > nrOfCols
       /\ \A j \in 1..i : FirstMatch(colNames, sel.names[j]) # -1

\* the column loop of fstRead_v1
RECURSIVE ReadColumns_v1(_, _, _, _, _, _, _, _, _)
ReadColumns_v1(f, colNames, blockPos, colIndex, nrOfCols, firstRow, length, colSel, acc) ==
  IF colSel > Len(colIndex) THEN acc
  ELSE
    LET colNr == colIndex[colSel] IN
    IF colNr < 0 \/ colNr >= nrOfCols
    THEN [acc EXCEPT !.error = "column out of range",
                     !.log = acc.log \o <<Ev("free"), Ev("close")>>]
    ELSE
      LET code == Decoder_v1(LegacyView(f).colTypes[colNr + 1])
          pos == blockPos[colNr + 1]
      IN
      IF code = 0
      THEN [acc EXCEPT !.error = "unknown type",
                       !.log = acc.log \o <<Ev("free"), Ev("close")>>]
      ELSE ReadColumns_v1(f, colNames, blockPos, colIndex, nrOfCols,
                          firstRow, length, colSel + 1,
             [acc EXCEPT
                !.log = Append(acc.log,
                               DecodeEv(code, colNr, pos, firstRow, length)),
                !.resTable = Append(acc.resTable,
                               Decode(f.payload, code, pos, firstRow, length)),
                !.selectedNames = Append(acc.selectedNames,
                                         colNames[colNr + 1])])

\* fstRead_v1; log0 is what fstRead did before handing the file over
FstRead_v1(f, sel, from, to, heap, args, log0) ==
  LET v == LegacyView(f)
      nrOfCols == v.nrOfCols
      keyLength == v.keyLength
      log1 == log0 \o <<Ev("legacy"), Ev("open"), Ev("meta")>>
      headerError == HeaderError_v1(v)
  IN
  IF ~f.exists
  THEN Failed("read", "legacy", args, "open",
              log0 \o <<Ev("legacy"), Ev("open"), Ev("close")>>)
  ELSE IF headerError # ""
  THEN Failed("read", "legacy", args, headerError, log1 \o HeaderErrorLog_v1)
  ELSE
    LET offset == NamesOffset_v1(keyLength, nrOfCols)
        colNames == ReadNames(v.namesAt, v.colNames, nrOfCols, offset)
        blockPos == Tail(v.allBlockPos)
        log2 == Append(log1, Ev("names"))
        overflow == Overflows_v1(colNames, nrOfCols, sel)
        stored == ColIndex(colNames, nrOfCols, sel)
        colIndex == ColIndex_v1(colNames, nrOfCols, sel, heap)
        nrOfSelect == NrOfSelect(nrOfCols, sel)
        firstRow == FirstRow(from)
        nrOfRows == v.allBlockPos[1]
        rowError == RowError(nrOfRows, firstRow, to)
        length == RowLength(nrOfRows, firstRow, to)
        log3 == IF overflow THEN Append(log2, Ev("overflow")) ELSE log2
    IN
    IF overflow /\ heap.kind = "crash"
    THEN [op |-> "read", reader |-> "legacy", args |-> args,
          status |-> "crash", error |-> "", log |-> log3]
    ELSE IF \E s \in 1..nrOfSelect : stored[s] = -1
    THEN Failed("read", "legacy", args, "column not found",
                log3 \o <<Ev("free"), Ev("close")>>)
    ELSE IF rowError # ""
    THEN Failed("read", "legacy", args, rowError,
                log3 \o <<Ev("free"), Ev("close")>>)
    ELSE
      LET cols == ReadColumns_v1(f, colNames, blockPos, colIndex, nrOfCols,
                                 firstRow, length, 1,
                                 [log |-> log3, resTable |-> <<>>,
                                  selectedNames |-> <<>>, error |-> ""])
          found == Found(v.keyColumns, keyLength, colIndex)
      IN
      IF cols.error # ""
      THEN Failed("read", "legacy", args, cols.error, cols.log)
      ELSE [op |-> "read", reader |-> "legacy", args |-> args,
            status |-> "ok", error |-> "",
            log |-> cols.log \o <<Ev("close"), Ev("key scan")>>
                      \o (IF found > 0 THEN <<Ev("key names")>> ELSE <<>>)
                      \o <<Ev("free"), Ev("warning")>>,
            keyNamesNull |-> (found = 0),
            keyNames |-> KeyNames(colNames, v.keyColumns, found),
            found |-> found, keyColVec |-> <<>>,
            resTable |-> cols.resTable,
            selectedNames |-> cols.selectedNames, warning |-> TRUE]

\* fstRead
FstRead(f, sel, from, to, heap) ==
  LET args == [sel |-> sel, from |-> from, to |-> to]
      h == ReadHeader(f)
      log0 == <<Ev("open")>> \o h.log
  IN
  IF ~f.exists
  THEN Failed("read", "none", args, "open", <<Ev("open"), Ev("close")>>)
  ELSE IF h.status = "error"
  THEN Failed("read", "none", args, h.error, log0)
  ELSE IF h.version = 0
  THEN FstRead_v1(f, sel, from, to, heap, args, Append(log0, Ev("close")))
  ELSE ReadCurrent(f, sel, from, to, heap, args, log0)

----------------------------------------------------------------------------
(* fstMeta and fstMeta_v1 *)

\* *p_nrOfChunks as fstMeta reads it for its result, after delete[] dataMeta
MetaNrOfChunks(f, heap) ==
  IF heap.kind = "junk" THEN heap.v ELSE f.nrOfChunks

FstMeta_v1(f, log0) ==
  LET v == LegacyView(f)
      nrOfCols == v.nrOfCols
      keyLength == v.keyLength
      log1 == log0 \o <<Ev("legacy"), Ev("open"), Ev("meta")>>
      headerError == HeaderError_v1(v)
      nrOfRows == v.allBlockPos[1]
  IN
  IF ~f.exists
  THEN Failed("meta", "legacy", <<>>, "open",
              log0 \o <<Ev("legacy"), Ev("open"), Ev("close")>>)
  ELSE IF headerError # ""
  THEN Failed("meta", "legacy", <<>>, headerError, log1 \o HeaderErrorLog_v1)
  ELSE IF nrOfRows <= 0
  THEN Failed("meta", "legacy", <<>>, "header: blockPos",
              log1 \o HeaderErrorLog_v1)
  ELSE
    LET offset == NamesOffset_v1(keyLength, nrOfCols)
        colNames == ReadNames(v.namesAt, v.colNames, nrOfCols, offset)
    IN
    [op |-> "meta", reader |-> "legacy", args |-> <<>>,
     status |-> "ok", error |-> "",
     log |-> log1 \o <<Ev("names"), Ev("close")>>
               \o (IF keyLength > 0 THEN <<Ev("key names")>> ELSE <<>>)
               \o <<Ev("free")>>,
     nrOfCols |-> nrOfCols, nrOfRows |-> nrOfRows, fstVersion |-> 0,
     colTypeVec |-> v.colTypes,
     hasKeys |-> (keyLength > 0),
     keyColIndex |-> v.keyColumns, keyLength |-> keyLength,
     keyNames |-> KeyNames(colNames, v.keyColumns, keyLength),
     colNames |-> colNames, nrOfChunks |-> 1, warning |-> FALSE]

FstMeta(f, heap) ==
  LET h == ReadHeader(f)
      log0 == <<Ev("open")>> \o h.log
  IN
  IF ~f.exists
  THEN Failed("meta", "none", <<>>, "open", <<Ev("open"), Ev("close")>>)
  ELSE IF h.status = "error"
  THEN Failed("meta", "none", <<>>, h.error, log0)
  ELSE IF h.version = 0
  THEN FstMeta_v1(f, Append(log0, Ev("close")))
  ELSE
    LET nrOfCols == f.nrOfCols
        keyLength == f.keyLength
        offset == NamesOffset(keyLength, nrOfCols)
        colNames == ReadNames(f.namesAt, f.colNames, nrOfCols, offset)
    IN
    [op |-> "meta", reader |-> "current", args |-> <<>>,
     status |-> "ok", error |-> "",
     log |-> log0 \o <<Ev("meta"), Ev("names"), Ev("index"), Ev("close")>>
               \o (IF keyLength > 0 THEN <<Ev("key names")>> ELSE <<>>)
               \o <<Ev("free"), Ev("chunks")>>,
     nrOfCols |-> nrOfCols, nrOfRows |-> f.chunkRows[1],
     fstVersion |-> h.version,
     colTypeVec |-> f.colTypes,
     hasKeys |-> (keyLength > 0),
     keyColIndex |-> f.keyColPos, keyLength |-> keyLength,
     keyNames |-> KeyNames(colNames, f.keyColPos, keyLength),
     colNames |-> colNames, nrOfChunks |-> MetaNrOfChunks(f, heap),
     warning |-> FALSE]

----------------------------------------------------------------------------
(* Files the writer did not produce *)

\* the legacy type code of a column type, 0 when the format has none
TypeCode_v0(rtype) ==
  CASE rtype = "STRSXP" -> 1
    [] rtype = "INTSXP" -> 2
    [] rtype = "REALSXP" -> 3
    [] rtype = "LGLSXP" -> 4
    [] rtype = "FACTOR" -> 5
    [] OTHER -> 0

\* offsets of the column payloads of a legacy file, first one at `start`
RECURSIVE Positions_v0(_, _, _)
Positions_v0(T, c, start) ==
  IF c > Len(T.names) THEN <<>>
  ELSE <<start>> \o
       Positions_v0(T, c + 1,
                    start + EncodedSize(TypeCode_v0(T.types[c]) + 5,
                                        T.nrOfRows, 0))

\* a legacy-v0 file holding table T; `ver` is what its bytes 8..11 read as
LegacyFile(T, ver) ==
  LET nrOfCols == Len(T.names)
      keyLength == Len(T.keys)
      namesAt == NamesOffset_v1(keyLength, nrOfCols)
      pos == Positions_v0(T, 1, namesAt + CharVecSize(nrOfCols))
  IN
  [NoFile EXCEPT
     !.exists = TRUE, !.complete = TRUE,
     !.nrOfCols = nrOfCols + 65536 * keyLength,
     !.version = ver,
     !.fileId = OTHER_FILE_ID,
     !.payload = [p \in {pos[c] : c \in 1..nrOfCols} |->
                    LET c == CHOOSE c \in 1..nrOfCols : pos[c] = p
                    IN [codec |-> TypeCode_v0(T.types[c]),
                        data |-> ColData(T, c - 1), level |-> 0]],
     !.v0 = [nrOfCols |-> nrOfCols, keyLength |-> keyLength,
             keyColumns |-> [i \in 1..keyLength |->
                               FindKey(T.names, T.keys[i])],
             colTypes |-> [c \in 1..nrOfCols |-> TypeCode_v0(T.types[c])],
             allBlockPos |-> <<T.nrOfRows>> \o pos,
             colNames |-> T.names, namesAt |-> namesAt]]

\* a legacy file is put at the path
Install(T, ver) ==
  /\ Ready
  /\ ~file.exists
  /\ file' = LegacyFile(T, ver)
  /\ UNCHANGED <<wr, res, wrote>>

\* the file is removed
Unlink ==
  /\ Ready
  /\ file.exists
  /\ file' = NoFile
  /\ wrote' = NoResult
  /\ UNCHANGED <<wr, res>>

Swap12(s) == [s EXCEPT ![1] = s[2], ![2] = s[1]]

\* one field of an intact file in the current format is overwritten
DamageCurrent(kind, v) ==
  /\ Ready
  /\ file.exists /\ file.damage = "none" /\ file.fileId = FST_FILE_ID
  /\ CASE kind = "version" ->
            file' = [file EXCEPT !.version = v, !.damage = kind]
       [] kind = "chunks" ->
            file' = [file EXCEPT !.nrOfChunks = 2 + v, !.damage = kind]
       [] kind = "index" ->
            /\ Len(file.index) >= 2
            /\ file' = [file EXCEPT !.index = Swap12(file.index),
                                    !.damage = kind]
       [] kind = "type" ->
            file' = [file EXCEPT !.colTypes[1] = 11 + v, !.damage = kind]
       [] kind = "truncated" ->
            file' = [file EXCEPT !.complete = FALSE, !.damage = kind]
  /\ UNCHANGED <<wr, res, wrote>>

\* one field of an intact legacy file is overwritten
DamageLegacy(kind, v) ==
  /\ Ready
  /\ file.exists /\ file.damage = "none" /\ file.fileId # FST_FILE_ID
  /\ CASE kind = "index" ->
            /\ file.v0.nrOfCols >= 2
            /\ file' = [file EXCEPT
                          !.v0.allBlockPos =
                             <<file.v0.allBlockPos[1]>>
                               \o Swap12(Tail(file.v0.allBlockPos)),
                          !.damage = kind]
       [] kind = "type" ->
            file' = [file EXCEPT !.v0.colTypes[1] = 6 * v, !.damage = kind]
       [] kind = "rows" ->
            file' = [file EXCEPT !.v0.allBlockPos[1] = 0, !.damage = kind]
       [] kind = "truncated" ->
            file' = [file EXCEPT !.complete = FALSE, !.damage = kind]
  /\ UNCHANGED <<wr, res, wrote>>

----------------------------------------------------------------------------
(* Calls of the readers, and the return of an operation to its caller *)

\* the heap outcome of a call that reads no memory but its own
Intact == [kind |-> "intact", v |-> 0]

\* the heap outcomes a call can meet, given what it does on an intact heap:
\* only a call that stores behind colIndex or reads dataMeta after its
\* delete[] meets any other
Outcomes(r) ==
  IF Has(r.log, "overflow") \/ Has(r.log, "key copy") \/ Has(r.log, "chunks")
  THEN HeapOutcomes ELSE {Intact}

Meta ==
  /\ Ready
  /\ LET r == FstMeta(file, Intact) IN
     \E heap \in Outcomes(r) :
       res' = IF heap = Intact THEN r ELSE FstMeta(file, heap)
  /\ UNCHANGED <<file, wr, wrote>>

Read(sel, from, to) ==
  /\ Ready
  /\ LET r == FstRead(file, sel, from, to, Intact) IN
     \E heap \in Outcomes(r) :
       res' = IF heap = Intact THEN r ELSE FstRead(file, sel, from, to, heap)
  /\ UNCHANGED <<file, wr, wrote>>

Return ==
  /\ wr.pc = "idle"
  /\ res # NoResult
  /\ res' = NoResult
  /\ UNCHANGED <<file, wr, wrote>>

\* the arguments of a read
NullSel == [isNull |-> TRUE, names |-> <<>>]
Selections ==
  {NullSel} \cup {[isNull |-> FALSE, names |-> nm] :
                    nm \in SeqsUpTo(AnyNames, MaxSel)}
FromRows == 0..(MaxRows + 1)
ToRows == {<<>>} \cup {<<t>> : t \in 0..(MaxRows + 1)}

----------------------------------------------------------------------------
(* Writing a table and reading it back whole *)

Init ==
  /\ file = NoFile
  /\ wr = Idle
  /\ res = NoResult
  /\ wrote = NoResult

Store ==
  /\ Ready /\ ~file.exists
  /\ \E T \in Tables, compress \in Levels \cup BadLevels, canOpen \in BOOLEAN,
        fillMeta \in UninitValues, fillPos \in UninitValues :
       StoreBegin(T, compress, canOpen, fillMeta, fillPos)

ReadBack == Ready /\ Read(NullSel, 1, <<>>)

MetaBack == Ready /\ Meta

Next ==
  \/ Store
  \/ StoreColumn
  \/ StoreFinish
  \/ ReadBack
  \/ MetaBack
  \/ Return
  \/ Unlink

Spec == Init /\ [][Next]_vars

----------------------------------------------------------------------------
(* Reading files of either format, intact or damaged, with any arguments *)

StoreForRead ==
  Ready /\ ~file.exists /\ \E T \in ReadTables : StoreBegin(T, 0, TRUE, 0, 0)

\* tables fstStore refuses: no column, no row, or a column of a type it
\* does not store
RefusedTables == TablesOf(0..1, {5}, 0..1)

\* writes that end in an error
StoreRefused ==
  /\ Ready /\ ~file.exists
  /\ \E T \in RefusedTables, compress \in BadLevels \cup {0},
        canOpen \in BOOLEAN :
       StoreBegin(T, compress, canOpen, 0, 0)

InstallLegacy ==
  Ready /\ ~file.exists /\ \E T \in ReadTables, ver \in {0, 2} : Install(T, ver)

Damage ==
  /\ Ready
  /\ \/ \E v \in {0, 2} : DamageCurrent("version", v)
     \/ \E kind \in {"chunks", "index", "type", "truncated"} :
          DamageCurrent(kind, 0)
     \/ \E v \in {0, 1} : DamageLegacy("type", v)
     \/ \E kind \in {"index", "rows", "truncated"} : DamageLegacy(kind, 0)

ReadAny ==
  /\ Ready
  /\ \E sel \in Selections, from \in FromRows, to \in ToRows :
       Read(sel, from, to)

NextRead ==
  \/ StoreForRead
  \/ StoreRefused
  \/ StoreColumn
  \/ StoreFinish
  \/ InstallLegacy
  \/ Damage
  \/ ReadAny
  \/ MetaBack
  \/ Return
  \/ Unlink

SpecRead == Init /\ [][NextRead]_vars

----------------------------------------------------------------------------
(* fdsWriteLogicalVec_v10, called on its own at every level fstStore lets *)
(* through                                                                 *)

BLOCKSIZE_LOGICAL == 4096

SingleCompressor(algo, level) ==
  [type |-> "SingleCompressor", algo |-> algo, level |-> level]

StreamCompositeCompressor(first, second, ratio, bufferSize) ==
  [type |-> "StreamCompositeCompressor", first |-> first, second |-> second,
   ratio |-> ratio, bufferSize |-> bufferSize]

\* the writer with level 50 sent to the second pair of compressors
fdsWriteLogicalVec_v10_Below50(nrOfLogicals, compression) ==
  IF compression = 0
  THEN <<[fn |-> "fdsStreamUncompressed_v2", nrOfRows |-> nrOfLogicals,
          elementSize |-> 4, blockSize |-> BLOCKSIZE_LOGICAL,
          compressor |-> [type |-> "FixedRatioCompressor",
                          algo |-> "LOGIC64"]]>>
  ELSE IF compression < 50
  THEN <<[fn |-> "fdsStreamcompressed_v2", nrOfRows |-> nrOfLogicals,
          elementSize |-> 4, blockSize |-> BLOCKSIZE_LOGICAL,
          compressor |->
            StreamCompositeCompressor(SingleCompressor("LOGIC64", 0),
                                      SingleCompressor("LZ4_LOGIC64", 100),
                                      2 * compression,
                                      4 * BLOCKSIZE_LOGICAL)]>>
  ELSE IF compression <= 100
  THEN <<[fn |-> "fdsStreamcompressed_v2", nrOfRows |-> nrOfLogicals,
          elementSize |-> 4, blockSize |-> BLOCKSIZE_LOGICAL,
          compressor |->
            StreamCompositeCompressor(
              SingleCompressor("LZ4_LOGIC64", 100),
              SingleCompressor("ZSTD_LOGIC64",
                               30 + (7 * (compression - 50)) \div 5),
              2 * (compression - 50),
              4 * BLOCKSIZE_LOGICAL)]>>
  ELSE <<>>

\* fdsWriteLogicalVec_v10: the calls of the block streamer it makes
fdsWriteLogicalVec_v10(nrOfLogicals, compression) ==
  IF compression = 0
  THEN <<[fn |-> "fdsStreamUncompressed_v2", nrOfRows |-> nrOfLogicals,
          elementSize |-> 4, blockSize |-> BLOCKSIZE_LOGICAL,
          compressor |-> [type |-> "FixedRatioCompressor",
                          algo |-> "LOGIC64"]]>>
  ELSE IF compression <= 50
  THEN <<[fn |-> "fdsStreamcompressed_v2", nrOfRows |-> nrOfLogicals,
          elementSize |-> 4, blockSize |-> BLOCKSIZE_LOGICAL,
          compressor |->
            StreamCompositeCompressor(SingleCompressor("LOGIC64", 0),
                                      SingleCompressor("LZ4_LOGIC64", 100),
                                      2 * compression,
                                      4 * BLOCKSIZE_LOGICAL)]>>
  ELSE IF compression <= 100
  THEN <<[fn |-> "fdsStreamcompressed_v2", nrOfRows |-> nrOfLogicals,
          elementSize |-> 4, blockSize |-> BLOCKSIZE_LOGICAL,
          compressor |->
            StreamCompositeCompressor(
              SingleCompressor("LZ4_LOGIC64", 100),
              SingleCompressor("ZSTD_LOGIC64",
                               30 + (7 * (compression - 50)) \div 5),
              2 * (compression - 50),
              4 * BLOCKSIZE_LOGICAL)]>>
  ELSE <<>>

\* the levels fstStore hands to the column writers
StoreLevels == 0..100

\* the writer is called on a stream at offset 0 with a vector of logicals
WriteLogical ==
  /\ Ready /\ ~file.exists
  /\ \E n \in 1..MaxRows, compression \in StoreLevels :
       /\ file' = [NoFile EXCEPT
                     !.exists = TRUE,
                     !.payload = [p \in {0} |->
                                    [codec |-> 10,
                                     data |-> [r \in 1..n |-> CellValue(0, r)],
                                     level |-> compression]]]
       /\ res' = [op |-> "logical", status |-> "ok", level |-> compression,
                  nrOfLogicals |-> n,
                  calls |-> fdsWriteLogicalVec_v10(n, compression)]
  /\ UNCHANGED <<wr, wrote>>

NextLogical ==
  \/ WriteLogical
  \/ Return
  \/ Unlink

SpecLogical == Init /\ [][NextLogical]_vars

----------------------------------------------------------------------------
(* Properties *)

\* the encode events of a write, in order
RECURSIVE Encodes(_)
Encodes(log) ==
  IF log = <<>> THEN <<>>
  ELSE IF Head(log).ev = "encode" THEN <<Head(log)>> \o Encodes(Tail(log))
  ELSE Encodes(Tail(log))

FullArgs == [sel |-> NullSel, from |-> 1, to |-> <<>>]

\* the file is one fstStore wrote and nothing has touched since
Written == wrote # NoResult /\ file.damage = "none"

\* the header is one ReadHeader takes for the current format
CurrentFormat(f) ==
  f.exists /\ f.complete /\ f.fileId = FST_FILE_ID /\ f.version = FST_VERSION

\* C1: a full read of a file fstStore wrote, at any level, calls for each
\* column, in file order, the decoder of the type whose encoder wrote it, at
\* the offset that encoder started at, with startRow 0 and length nrOfRows,
\* and returns the table column for column
RoundTripDispatch ==
  (res.op = "read" /\ Written /\ res.args = FullArgs) =>
    /\ res.status = "ok"
    /\ res.reader = "current"
    /\ LET T == wrote.table
           enc == Encodes(wrote.log)
           dec == Decodes(res.log)
       IN /\ Len(enc) = Len(T.names)
          /\ Len(dec) = Len(T.names)
          /\ Len(res.resTable) = Len(T.names)
          /\ \A c \in 1..Len(T.names) :
               /\ enc[c].codec \in {6, 7, 8, 9, 10}
               /\ enc[c].codec = TypeCode(T.types[c])
               /\ enc[c].colNr = c - 1
               /\ dec[c].colNr = c - 1
               /\ dec[c].codec = enc[c].codec
               /\ dec[c].pos = enc[c].pos
               /\ dec[c].startRow = 0
               /\ dec[c].length = T.nrOfRows
               /\ res.resTable[c] = ColData(T, c - 1)
               /\ res.selectedNames[c] = T.names[c]

\* a table of a factor and an integer column, written at level 100, has
\* been read back whole
RoundTripDispatchWitness ==
  /\ res.op = "read" /\ Written /\ res.args = FullArgs
  /\ res.status = "ok"
  /\ wrote.compress = 100
  /\ wrote.table.types = <<"FACTOR", "INTSXP">>
  /\ wrote.table.nrOfRows = MaxRows

\* the rows a reader takes the file to hold
RowsSeen(f, reader) ==
  IF reader = "legacy" THEN LegacyView(f).allBlockPos[1] ELSE f.chunkRows[1]

\* the column names a reader finds in the file
NamesSeen(f, reader) ==
  IF reader = "legacy"
  THEN LET v == LegacyView(f)
       IN ReadNames(v.namesAt, v.colNames, v.nrOfCols,
                    NamesOffset_v1(v.keyLength, v.nrOfCols))
  ELSE f.colNames

\* 0-based number of the first column called name; only used where one is
FirstNamed(names, name) ==
  (CHOOSE j \in 1..Len(names) :
     names[j] = name /\ \A k \in 1..(j - 1) : names[k] # name) - 1

\* the read names a subset of the written table's columns and a row range
\* [a, b) with 1 <= a < b <= n + 1, passing b as toRow
ProjectionCase ==
  /\ res.op = "read" /\ Written
  /\ res.args.to # <<>>
  /\ 1 <= res.args.from
  /\ res.args.from < res.args.to[1]
  /\ res.args.to[1] <= wrote.table.nrOfRows + 1
  /\ \A i \in 1..Len(res.args.sel.names) :
       \E c \in 1..Len(wrote.table.names) :
         wrote.table.names[c] = res.args.sel.names[i]

\* the 0-based columns of the written table a projection asks for, in the
\* order asked
AskedCols ==
  IF res.args.sel.isNull
  THEN [i \in 1..Len(wrote.table.names) |-> i - 1]
  ELSE [i \in 1..Len(res.args.sel.names) |->
          FirstNamed(wrote.table.names, res.args.sel.names[i])]

\* C2 as stated: read(write(T), S, a, b) returns rows a..b-1 of the columns
\* in S, b - a rows per column from 0-based row a - 1
ProjectionHalfOpen ==
  ProjectionCase =>
    /\ res.status = "ok"
    /\ Len(res.resTable) = Len(AskedCols)
    /\ \A i \in 1..Len(AskedCols) :
         /\ Len(res.resTable[i]) = res.args.to[1] - res.args.from
         /\ res.resTable[i] =
              SubSeq(ColData(wrote.table, AskedCols[i]),
                     res.args.from, res.args.to[1] - 1)

\* C2 amended: read(write(T), S, a, b) returns rows a..min(b, n) of the
\* columns in S, in the order asked: toRow counts as the last row read, so
\* each column has min(b, n) - a + 1 rows from 0-based row a - 1
ProjectionInclusive ==
  ProjectionCase =>
    /\ res.status = "ok"
    /\ Len(res.resTable) = Len(AskedCols)
    /\ \A i \in 1..Len(AskedCols) :
         /\ res.selectedNames[i] = wrote.table.names[AskedCols[i] + 1]
         /\ Len(res.resTable[i]) =
              Min(res.args.to[1], wrote.table.nrOfRows) - res.args.from + 1
         /\ res.resTable[i] =
              SubSeq(ColData(wrote.table, AskedCols[i]),
                     res.args.from,
                     Min(res.args.to[1], wrote.table.nrOfRows))

\* two named columns, the second ahead of the first, have been read of a
\* two-row table with fromRow 1 and toRow 2, and both rows came back
ProjectionWitness ==
  /\ ProjectionCase
  /\ res.status = "ok"
  /\ wrote.table.names = <<"a", "b">>
  /\ wrote.table.nrOfRows = 2
  /\ res.args.sel.names = <<"b", "a">>
  /\ res.args.from = 1 /\ res.args.to = <<2>>
  /\ res.resTable = << <<CellValue(1, 1), CellValue(1, 2)>>,
                       <<CellValue(0, 1), CellValue(0, 2)>> >>

\* C3: a read by either reader of a file of n rows with fromRow f and toRow
\* t fails when f < 1 or f > n, fails when t is given and t <= f - 1, and
\* else decodes every selected column with startRow f - 1 and length
\* min(t, n) - (f - 1), or n - (f - 1) without t; every decode it starts has
\* 1 <= length <= n - (f - 1)
RowRangeResolution ==
  (res.op = "read" /\ res.reader \in {"current", "legacy"}) =>
    LET n == RowsSeen(file, res.reader)
        f == res.args.from
        t == res.args.to
        dec == Decodes(res.log)
        want == IF t = <<>> THEN n - (f - 1) ELSE Min(t[1], n) - (f - 1)
    IN /\ (f < 1 \/ f > n) => (res.status # "ok" /\ dec = <<>>)
       /\ (t # <<>> /\ t[1] <= f - 1) => (res.status # "ok" /\ dec = <<>>)
       /\ \A i \in 1..Len(dec) :
            /\ dec[i].startRow = f - 1
            /\ dec[i].length = want
            /\ 1 <= dec[i].length
            /\ dec[i].length <= n - (f - 1)
       /\ res.status = "ok" =>
            /\ Len(dec) = Len(res.resTable)
            /\ Len(dec) = (IF res.args.sel.isNull THEN Len(NamesSeen(file, res.reader))
                           ELSE Len(res.args.sel.names))

\* the legacy reader has read from the last row on, with a toRow behind the
\* end of the file
RowRangeResolutionWitness ==
  /\ res.op = "read" /\ res.reader = "legacy" /\ res.status = "ok"
  /\ RowsSeen(file, "legacy") = MaxRows
  /\ res.args.from = MaxRows
  /\ res.args.to = <<MaxRows + 1>>
  /\ Len(Decodes(res.log)) >= 1
  /\ Decodes(res.log)[1].length = 1

\* the 0-based column a requested name stands for, -1 when no stored column
\* has the name
Resolved(names, name) ==
  IF \E j \in 1..Len(names) : names[j] = name
  THEN FirstNamed(names, name) ELSE -1

\* C4: a read that gets to the column selection selects all columns in file
\* order when columnSelection is absent, else the first stored column of each
\* requested name, in request order, and decodes no other column; when a
\* requested name matches no stored column it fails before any decode and
\* returns no table
ColumnSelectionResolution ==
  (res.op = "read" /\ res.reader \in {"current", "legacy"}
     /\ Has(res.log, "names")) =>
    LET names == NamesSeen(file, res.reader)
        sel == res.args.sel
        want == IF sel.isNull THEN [i \in 1..Len(names) |-> i - 1]
                ELSE [i \in 1..Len(sel.names) |-> Resolved(names, sel.names[i])]
        dec == Decodes(res.log)
    IN IF \E i \in 1..Len(want) : want[i] = -1
       THEN /\ res.status = "error"
            /\ dec = <<>>
            /\ "resTable" \notin DOMAIN res
       ELSE /\ res.status \in {"ok", "error"}
            /\ Len(dec) <= Len(want)
            /\ \A i \in 1..Len(dec) : dec[i].colNr = want[i]
            /\ res.status = "ok" =>
                 /\ Len(res.resTable) = Len(want)
                 /\ Len(dec) = Len(want)
                 /\ res.selectedNames =
                      [i \in 1..Len(want) |-> names[want[i] + 1]]

\* the key names of the written table all name a column
KeysMatch ==
  \A i \in 1..Len(wrote.table.keys) :
    \E c \in 1..Len(wrote.table.names) :
      wrote.table.names[c] = wrote.table.keys[i]

\* what fstMeta returns of a written file, nrOfChunks left aside
SchemaFields ==
  LET T == wrote.table IN
  /\ res.status = "ok"
  /\ res.nrOfCols = Len(T.names)
  /\ res.nrOfRows = T.nrOfRows
  /\ res.fstVersion = 1
  /\ res.keyLength = Len(T.keys)
  /\ res.colTypeVec = [c \in 1..Len(T.names) |-> TypeCode(T.types[c])]
  /\ res.keyColIndex =
       [i \in 1..Len(T.keys) |-> FirstNamed(T.names, T.keys[i])]

\* C5: fstMeta on a file written of a table with C columns, n rows and K
\* matching key names returns nrOfCols C, nrOfRows n, version 1, nrOfChunks
\* 1, keyLength K, the type codes the writer assigned in column order, and
\* the 0-based columns of the key names in key order
SchemaRoundTrip ==
  (res.op = "meta" /\ Written /\ KeysMatch) =>
    (SchemaFields /\ res.nrOfChunks = 1)

\* C6: fstRead and fstMeta hand a file to the legacy reader exactly when
\* its fileId differs from FST_FILE_ID, whatever its version field holds
FormatDispatch ==
  (res.op \in {"read", "meta"} /\ file.exists /\ file.complete) =>
    (Has(res.log, "legacy") <=> file.fileId # FST_FILE_ID)

\* C7: fstRead and fstMeta of a file with the fileId of the current format
\* and a version above FST_VERSION fail, with the file closed, no further
\* metadata read and no column decoded
VersionGate ==
  (res.op \in {"read", "meta"} /\ file.exists /\ file.complete
     /\ file.fileId = FST_FILE_ID /\ file.version > FST_VERSION) =>
    /\ res.status = "error"
    /\ res.error = "newer version"
    /\ Has(res.log, "close")
    /\ ~Has(res.log, "meta") /\ ~Has(res.log, "names")
    /\ ~Has(res.log, "index") /\ ~Has(res.log, "legacy")
    /\ Decodes(res.log) = <<>>

\* a read of a written file whose version field was raised has been refused
VersionGateWitness ==
  /\ res.op = "read"
  /\ wrote # NoResult
  /\ file.fileId = FST_FILE_ID
  /\ file.version = FST_VERSION + 1
  /\ res.error = "newer version"

\* C8: fstRead of a current-format file with nrOfChunks above 1 fails with
\* the not-implemented error before column names, index or a payload is
\* read, with the file closed and the metadata buffer freed
MultiChunkRefusal ==
  (res.op = "read" /\ CurrentFormat(file) /\ file.nrOfChunks > 1) =>
    /\ res.status = "error"
    /\ res.error = "multiple chunks"
    /\ ~Has(res.log, "names") /\ ~Has(res.log, "index")
    /\ Decodes(res.log) = <<>>
    /\ Has(res.log, "close") /\ Has(res.log, "free")
    /\ "resTable" \notin DOMAIN res

\* a read with valid arguments of a written file whose nrOfChunks was set
\* to 2 has been refused
MultiChunkRefusalWitness ==
  /\ res.op = "read"
  /\ wrote # NoResult
  /\ CurrentFormat(file)
  /\ file.nrOfChunks = 2
  /\ res.args = FullArgs
  /\ res.error = "multiple chunks"

\* the column positions a reader finds in the file
IndexSeen(f, reader) ==
  IF reader = "legacy" THEN Tail(LegacyView(f).allBlockPos) ELSE f.index

\* C9: a read of a file whose column positions do not increase fails
\* before any column payload is decoded
CorruptIndexRefused ==
  (res.op = "read" /\ res.reader \in {"current", "legacy"}
     /\ file.exists /\ file.complete
     /\ \E c \in 1..(Len(IndexSeen(file, res.reader)) - 1) :
          IndexSeen(file, res.reader)[c + 1] < IndexSeen(file, res.reader)[c]) =>
    /\ res.status = "error"
    /\ Decodes(res.log) = <<>>

\* the key column indices a reader finds in the header, and the number of
\* columns it takes the file to have
KeysSeen(f, reader) ==
  IF reader = "legacy" THEN LegacyView(f).keyColumns ELSE f.keyColPos

ColsSeen(f, reader) ==
  IF reader = "legacy" THEN LegacyView(f).nrOfCols ELSE f.nrOfCols

\* C10: fstRead and fstMeta of a file of either format with a stored key
\* column index outside [0, nrOfCols) fail before the index is used to look
\* up a column name or is compared with the selection
KeyIndexRefused ==
  (res.op \in {"read", "meta"} /\ res.reader \in {"current", "legacy"}
     /\ file.exists /\ file.complete
     /\ \E k \in 1..Len(KeysSeen(file, res.reader)) :
          \/ KeysSeen(file, res.reader)[k] < 0
          \/ KeysSeen(file, res.reader)[k] >= ColsSeen(file, res.reader)) =>
    /\ res.status = "error"
    /\ ~Has(res.log, "key scan")
    /\ ~Has(res.log, "key names")

\* C11 as stated: a read whose toRow is less than or equal to fromRow fails
\* with an error and returns no table
RowOrderStrict ==
  (res.op = "read" /\ res.args.to # <<>> /\ res.args.to[1] <= res.args.from) =>
    /\ res.status = "error"
    /\ "resTable" \notin DOMAIN res

\* C11 amended: a read whose toRow is less than fromRow does not succeed,
\* decodes nothing and returns no table, and raises the lastRow error when
\* it gets to the row range checks with fromRow in [1, n]; a read whose toRow
\* equals fromRow is not refused for its toRow and decodes of every column
\* the one row fromRow
RowOrderRefusal ==
  (res.op = "read" /\ res.args.to # <<>>) =>
    LET f == res.args.from
        t == res.args.to[1]
        dec == Decodes(res.log)
    IN /\ t < f =>
            /\ res.status # "ok"
            /\ dec = <<>>
            /\ "resTable" \notin DOMAIN res
            /\ (/\ res.status = "error"
                /\ res.reader \in {"current", "legacy"}
                /\ Has(res.log, "names")
                /\ res.error # "column not found"
                /\ 1 <= f /\ f <= RowsSeen(file, res.reader)) =>
                 res.error = "lastRow too small"
       /\ t = f =>
            /\ res.error # "lastRow too small"
            /\ \A i \in 1..Len(dec) :
                 dec[i].startRow = f - 1 /\ dec[i].length = 1

\* the second row of a written two-row table has been read with fromRow 2
\* and toRow 2
RowOrderRefusalWitness ==
  /\ res.op = "read" /\ Written /\ res.status = "ok"
  /\ wrote.table.nrOfRows = 2
  /\ Len(wrote.table.names) = 2
  /\ res.args.sel.isNull
  /\ res.args.from = 2 /\ res.args.to = <<2>>
  /\ res.resTable = << <<CellValue(0, 2)>>, <<CellValue(1, 2)>> >>

\* metaDataBlock as fstStore writes it the second time, after the column
\* loop, when the allocation held `fill` in every byte
HeaderWritten(T, fill) ==
  [MetaDataBlock(T, fill) EXCEPT
     !.colTypes = [c \in 1..Len(T.names) |-> TypeCode(T.types[c])],
     !.chunkPos[1] = MetaDataSize(Len(T.keys), Len(T.names))
                       + CharVecSize(Len(T.names))]

\* C12: the file a successful write leaves is a function of the table and
\* the level alone: its header is the one fstStore writes whatever its
\* freshly allocated buffers held, and its column-position index holds the
\* offsets of the payloads
StoreDeterminism ==
  Written =>
    /\ \A fill \in UninitValues :
         WithHeader(file, HeaderWritten(wrote.table, fill)) = file
    /\ file.index = [c \in 1..Len(wrote.table.names) |->
                       Encodes(wrote.log)[c].pos]

LegacyWarning ==
  (res.op \in {"read", "meta"} /\ res.status = "ok") =>
    /\ Has(res.log, "legacy") => res.warning
    /\ file.fileId = FST_FILE_ID => ~res.warning

\* whether the file handle is open after the events of log, given whether
\* it was before them; -1 when the log opens an open handle or closes a
\* closed one
RECURSIVE Handle(_, _)
Handle(log, open) ==
  IF log = <<>> THEN open
  ELSE IF open = -1 THEN -1
  ELSE IF Head(log).ev = "open"
  THEN Handle(Tail(log), IF open = 0 THEN 1 ELSE -1)
  ELSE IF Head(log).ev = "close"
  THEN Handle(Tail(log), IF open = 1 THEN 0 ELSE -1)
  ELSE Handle(Tail(log), open)

\* C15: fstStore, fstMeta, fstRead and the legacy readers have closed the
\* file handle they opened when they return or raise an error
FileHandleDiscipline ==
  /\ (res.op = "store" /\ res.status \in {"ok", "error"}) =>
       (res.opened => res.closed)
  /\ (res.op \in {"read", "meta"} /\ res.status \in {"ok", "error"}) =>
       /\ Has(res.log, "open")
       /\ Handle(res.log, 0) = 0

\* a read has been refused for the version of the file, the handle closed
FileHandleDisciplineWitness ==
  /\ res.op = "read"
  /\ res.error = "newer version"
  /\ res.log = <<Ev("open"), Ev("header"), Ev("close")>>

\* C16: the found a read of a current-format file reports is the number of
\* stored keys whose column is among the columns it decoded, each key
\* counted once; when none is, found is 0 and keyNames is null; the table
\* holds the selected columns and no other
KeyProjectionCount ==
  (res.op = "read" /\ res.reader = "current" /\ res.status = "ok") =>
    LET dec == Decodes(res.log)
        keys == file.keyColPos
        hit == {i \in 1..Len(keys) :
                  \E d \in 1..Len(dec) : dec[d].colNr = keys[i]}
    IN /\ res.found = Cardinality(hit)
       /\ hit = {} => (res.found = 0 /\ res.keyNamesNull)
       /\ hit # {} => ~res.keyNamesNull
       /\ Len(res.resTable) = Len(dec)
       /\ Len(dec) = (IF res.args.sel.isNull THEN file.nrOfCols
                      ELSE Len(res.args.sel.names))
       /\ \A d \in 1..Len(dec) :
            res.selectedNames[d] = file.colNames[dec[d].colNr + 1]

\* of a table with the keys "a" and "b" the column "b" has been read twice
\* over, and one key was found
KeyProjectionCountWitness ==
  /\ res.op = "read" /\ res.reader = "current" /\ res.status = "ok"
  /\ Written
  /\ wrote.table.names = <<"a", "b">>
  /\ wrote.table.keys = <<"a", "b">>
  /\ res.args.sel.names = <<"b", "b">>
  /\ res.found = 1

\* C17: a successful write emits the payloads in column order behind the
\* reserved column-position index, each where the one before ended and none
\* empty; entry c of the index on file is the offset the payload of column
\* c starts at, so the entries increase strictly; the index is written a
\* second time only after the last payload, and until then holds what the
\* first write put there
IndexAfterWrite ==
  /\ Written =>
       LET T == wrote.table
           C == Len(T.names)
           enc == Encodes(wrote.log)
       IN /\ Len(enc) = C
          /\ Len(file.index) = C
          /\ enc[1].pos = file.indexAt + 8 * C
          /\ \A c \in 1..C :
               /\ enc[c].colNr = c - 1
               /\ file.index[c] = enc[c].pos
               /\ enc[c].pos \in DOMAIN file.payload
               /\ file.payload[enc[c].pos].data = ColData(T, c - 1)
               /\ EncodedSize(enc[c].codec, T.nrOfRows, wrote.compress) > 0
          /\ \A c \in 1..(C - 1) :
               /\ enc[c + 1].pos =
                    enc[c].pos
                      + EncodedSize(enc[c].codec, T.nrOfRows, wrote.compress)
               /\ file.index[c] < file.index[c + 1]
  /\ (res.op = "store" /\ res.status = "ok") =>
       LET n == Len(res.log) IN
       /\ res.log[n] = [ev |-> "index", pos |-> file.indexAt]
       /\ \A k \in 1..(n - 1) :
            res.log[k].ev = "index" =>
              \A j \in 1..n : res.log[j].ev = "encode" => k < j
  /\ wr.pc = "columns" =>
       \A c \in 1..Len(file.index) : file.index[c] \in UninitValues

\* a table of MaxCols columns has been written
IndexAfterWriteWitness ==
  /\ Written
  /\ res.op = "store" /\ res.status = "ok"
  /\ Len(file.index) = MaxCols
  /\ \A c \in 1..(MaxCols - 1) : file.index[c] < file.index[c + 1]
  /\ wrote.compress = 50

\* C18: in a file a successful write left, whatever key names the table
\* carried, every stored key index lies in [0, nrOfCols) and is the index of
\* the column of that key's name, and keyLength <= nrOfCols
KeyMetadataInvariant ==
  Written =>
    /\ file.keyLength <= file.nrOfCols
    /\ Len(file.keyColPos) = Len(wrote.table.keys)
    /\ \A k \in 1..Len(file.keyColPos) :
         /\ 0 <= file.keyColPos[k]
         /\ file.keyColPos[k] < file.nrOfCols
         /\ file.colNames[file.keyColPos[k] + 1] = wrote.table.keys[k]

\* C19: in a file a successful write left the chunk-position slots 1..7 are
\* zero, and while the column payloads are being written the reserved
\* column-position index holds zeros
UnusedSlotsZero ==
  /\ Written => \A i \in 2..8 : file.chunkPos[i] = 0
  /\ wr.pc = "columns" => \A c \in 1..Len(file.index) : file.index[c] = 0

\* C20: at every level in [0, 100] fdsWriteLogicalVec_v10 makes one call of
\* the block streamer, with element size 4 and blocks of 4096 elements: at
\* level 0 the uncompressed stream with a fixed-ratio LOGIC64 compressor; at
\* 1..50 the compressed stream with the composite of LOGIC64 and LZ4_LOGIC64
\* at 100, ratio 2*level; at 51..100 the compressed stream with the
\* composite of LZ4_LOGIC64 at 100 and ZSTD_LOGIC64 at 30 + 7*(level-50)/5,
\* ratio 2*(level-50); ratio and strength lie in [0, 100]
LogicalStrategy ==
  res.op = "logical" =>
    LET level == res.level
        call == res.calls[1]
        comp == call.compressor
    IN /\ level \in 0..100
       /\ Len(res.calls) = 1
       /\ call.elementSize = 4
       /\ call.blockSize = 4096
       /\ call.nrOfRows = res.nrOfLogicals
       /\ level = 0 =>
            /\ call.fn = "fdsStreamUncompressed_v2"
            /\ comp = [type |-> "FixedRatioCompressor", algo |-> "LOGIC64"]
       /\ (1 <= level /\ level <= 50) =>
            /\ call.fn = "fdsStreamcompressed_v2"
            /\ comp.type = "StreamCompositeCompressor"
            /\ comp.first.algo = "LOGIC64"
            /\ comp.second.algo = "LZ4_LOGIC64"
            /\ comp.second.level = 100
            /\ comp.ratio = 2 * level
       /\ (51 <= level /\ level <= 100) =>
            /\ call.fn = "fdsStreamcompressed_v2"
            /\ comp.type = "StreamCompositeCompressor"
            /\ comp.first.algo = "LZ4_LOGIC64"
            /\ comp.first.level = 100
            /\ comp.second.algo = "ZSTD_LOGIC64"
            /\ comp.second.level = 30 + (7 * (level - 50)) \div 5
            /\ comp.ratio = 2 * (level - 50)
       /\ level >= 1 =>
            /\ 0 <= comp.ratio /\ comp.ratio <= 100
            /\ 0 <= comp.first.level /\ comp.first.level <= 100
            /\ 0 <= comp.second.level /\ comp.second.level <= 100

\* the writer has been called at level 50, the last of the first pair
LogicalStrategyWitness ==
  /\ res.op = "logical"
  /\ res.level = 50
  /\ res.calls[1].compressor.ratio = 100
  /\ res.calls[1].compressor.second.algo = "LZ4_LOGIC64"

\* the names of the stored keys whose column is among the decoded ones, in
\* key order
SelectedKeyNames(names, keys, dec) ==
  LET hits == SelectSeq([i \in 1..Len(keys) |-> i],
                        LAMBDA i : \E d \in 1..Len(dec) :
                                     dec[d].colNr = keys[i])
  IN [j \in 1..Len(hits) |-> NameAt(names, keys[hits[j]])]

\* C21: whenever a read of a file of either format returns key names, each
\* of them is the name of a column of the returned table, and the list is
\* the stored key columns that were selected, in key order
KeyNamesOfProjection ==
  (res.op = "read" /\ res.reader \in {"current", "legacy"}
     /\ res.status = "ok" /\ ~res.keyNamesNull) =>
    /\ \A i \in 1..Len(res.keyNames) :
         \E s \in 1..Len(res.selectedNames) :
           res.selectedNames[s] = res.keyNames[i]
    /\ res.keyNames = SelectedKeyNames(NamesSeen(file, res.reader),
                                       KeysSeen(file, res.reader),
                                       Decodes(res.log))

\* the steps of fstRead that read dataMeta: the type code of a column to
\* decode, and the key indices in the scan, the naming and the copy
MetaReads == {"decode", "key scan", "key names", "key copy"}

\* C22: in a read of a current-format file no step reads the metadata
\* buffer after the step that released it; when the file has keys and none
\* is selected, the key indices in the result are those stored in the file
MetaBufferLifetime ==
  (res.op = "read" /\ res.reader = "current") =>
    /\ \A i, j \in 1..Len(res.log) :
         (i < j /\ res.log[i].ev = "free") => res.log[j].ev \notin MetaReads
    /\ (res.status = "ok" /\ res.keyNamesNull /\ file.keyLength > 0) =>
         \A k \in 1..file.keyLength : res.keyColVec[k] = file.keyColPos[k]

\* C23: in a read by fstRead_v1, whatever the selection it accepted, none
\* of the stores to and reads from colIndex falls outside the nrOfCols
\* entries allocated for it: the read stores nothing behind the array and
\* does not come to grief there
SelectionIndexBounds ==
  (res.op = "read" /\ res.reader = "legacy") =>
    /\ ~Has(res.log, "overflow")
    /\ res.status # "crash"
    /\ (res.status = "ok" /\ ~res.args.sel.isNull) =>
         Len(res.args.sel.names) <= ColsSeen(file, "legacy")

====
